---- MODULE Spec2Model ----
(***************************************************************************)
(* Model of the alfreyaa-app session controller (App.handleSendMessage),   *)
(* its intent classification, the capability adapters of geminiService,    *)
(* the content extractor of websiteService and the deployment orchestrator *)
(* deployApp of deploymentService.                                         *)
(*                                                                         *)
(* Text is a sequence of one-character strings, so that startsWith,        *)
(* includes, toLowerCase and the URL regular expression are computed, not  *)
(* assumed.  A template literal is the concatenation of its parts.         *)
(***************************************************************************)
EXTENDS Integers, Sequences, FiniteSets, TLC

(***************************************************************************)
(* Bounds of the model.                                                    *)
(***************************************************************************)
\* submit attempts (accepted or rejected) in one behaviour
MaxSubmits == 2
\* largest value of the clock behind Date.now()
MaxNow == 1
\* project files of a run (PROJECT_FILES lists 12)
MaxFiles == 2
\* fragments a classified command is built of
MaxFrags == 3
\* how far below and above maxLength the lengths of the long texts reach
MaxOver == 1
\* grounding chunks of one search response
MaxChunks == 3

(***************************************************************************)
(* Text helpers: String.prototype.toLowerCase, startsWith, includes, trim. *)
(***************************************************************************)
UpperCase ==
  <<"A","B","C","D","E","F","G","H","I","J","K","L","M",
    "N","O","P","Q","R","S","T","U","V","W","X","Y","Z">>

LowerCase ==
  <<"a","b","c","d","e","f","g","h","i","j","k","l","m",
    "n","o","p","q","r","s","t","u","v","w","x","y","z">>

toLowerChar(c) ==
  IF \E i \in 1..26 : UpperCase[i] = c
    THEN LowerCase[CHOOSE i \in 1..26 : UpperCase[i] = c]
    ELSE c

toLowerCase(s) == [i \in 1..Len(s) |-> toLowerChar(s[i])]

\* the characters the regular-expression class \s matches, and trim() strips
WhiteSpace == {" ", "\t", "\n", "\r"}

startsWithAt(s, k, i) ==
  /\ i + Len(k) - 1 <= Len(s)
  /\ \A j \in 1..Len(k) : s[i + j - 1] = k[j]

startsWith(s, k) == startsWithAt(s, k, 1)

includes(s, k) == \E i \in 1..(Len(s) + 1) : startsWithAt(s, k, i)

isBlank(s) == \A i \in 1..Len(s) : s[i] \in WhiteSpace

(***************************************************************************)
(* urlRegex = /(https?:\/\/\S+)/ and prompt.match(urlRegex): the leftmost  *)
(* match, its \S+ taken greedily; <<>> stands for null (no match).         *)
(***************************************************************************)
SchemeHttp == <<"h","t","t","p">>
SchemeHttps == <<"h","t","t","p","s">>
SchemeSep == <<":","/","/">>

\* the position after "http://" or "https://" when one starts at i, else 0
urlBodyStart(s, i) ==
  IF startsWithAt(s, SchemeHttps \o SchemeSep, i) THEN i + 8
  ELSE IF startsWithAt(s, SchemeHttp \o SchemeSep, i) THEN i + 7
  ELSE 0

urlMatchesAt(s, i) ==
  LET b == urlBodyStart(s, i)
  IN  b > 0 /\ b <= Len(s) /\ s[b] \notin WhiteSpace

\* the last position of the run of non-whitespace that starts at b
RECURSIVE nonSpaceEnd(_, _)
nonSpaceEnd(s, b) ==
  IF b < Len(s) /\ s[b + 1] \notin WhiteSpace THEN nonSpaceEnd(s, b + 1) ELSE b

\* mutant: the rightmost match
urlMatchLast(s) ==
  IF \E i \in 1..Len(s) : urlMatchesAt(s, i)
    THEN LET i == CHOOSE i \in 1..Len(s) :
                    /\ urlMatchesAt(s, i)
                    /\ \A j \in (i + 1)..Len(s) : ~urlMatchesAt(s, j)
         IN  SubSeq(s, i, nonSpaceEnd(s, urlBodyStart(s, i)))
    ELSE <<>>

urlMatch(s) ==
  IF \E i \in 1..Len(s) : urlMatchesAt(s, i)
    THEN LET i == CHOOSE i \in 1..Len(s) :
                    /\ urlMatchesAt(s, i)
                    /\ \A j \in 1..(i - 1) : ~urlMatchesAt(s, j)
         IN  SubSeq(s, i, nonSpaceEnd(s, urlBodyStart(s, i)))
    ELSE <<>>

(***************************************************************************)
(* The keyword lists of handleSendMessage.                                 *)
(***************************************************************************)
modificationKeywords ==
  { <<"c","h","a","n","g","e"," ","y","o","u","r">>,
    <<"m","o","d","i","f","y"," ","t","h","e">>,
    <<"u","p","d","a","t","e"," ","t","h","e">>,
    <<"a","d","d"," ","a"," ","f","e","a","t","u","r","e">>,
    <<"i","m","p","l","e","m","e","n","t"," ","a">>,
    <<"r","e","w","r","i","t","e"," ","t","h","e">> }

searchKeywords ==
  { <<"s","e","a","r","c","h"," ","f","o","r">>,
    <<"w","h","a","t"," ","i","s">>,
    <<"w","h","o"," ","i","s">>,
    <<"f","i","n","d"," ","o","u","t">>,
    <<"l","a","t","e","s","t">>,
    <<"l","o","o","k"," ","u","p">>,
    <<"t","e","l","l"," ","m","e"," ","a","b","o","u","t">>,
    <<"w","h","a","t","'","s"," ","n","e","w">> }

deployKeywords ==
  { <<"d","e","p","l","o","y">>,
    <<"p","u","b","l","i","s","h">>,
    <<"g","o"," ","l","i","v","e">> }

imageKeywords ==
  { <<"g","e","n","e","r","a","t","e"," ","i","m","a","g","e">>,
    <<"s","h","o","w"," ","m","e"," ","a"," ","p","i","c","t","u","r","e">> }

\* mutant: a modification phrase counts wherever it stands in the prompt
classifyModificationAnywhere(prompt) ==
  LET lowerCasePrompt == toLowerCase(prompt)
  IN  IF \E k \in modificationKeywords : includes(lowerCasePrompt, k)
        THEN "CodeModification"
      ELSE IF \E k \in imageKeywords : includes(lowerCasePrompt, k)
        THEN "ImageGeneration"
      ELSE IF urlMatch(prompt) # <<>>
        THEN "UrlAnalysis"
      ELSE IF \E k \in searchKeywords : includes(lowerCasePrompt, k)
        THEN "GroundedSearch"
      ELSE IF \E k \in deployKeywords : includes(lowerCasePrompt, k)
        THEN "Deployment"
      ELSE "PlainText"

\* mutant: the deploy condition is tested before the search condition
classifyDeployFirst(prompt) ==
  LET lowerCasePrompt == toLowerCase(prompt)
  IN  IF \E k \in modificationKeywords : startsWith(lowerCasePrompt, k)
        THEN "CodeModification"
      ELSE IF \E k \in imageKeywords : includes(lowerCasePrompt, k)
        THEN "ImageGeneration"
      ELSE IF urlMatch(prompt) # <<>>
        THEN "UrlAnalysis"
      ELSE IF \E k \in deployKeywords : includes(lowerCasePrompt, k)
        THEN "Deployment"
      ELSE IF \E k \in searchKeywords : includes(lowerCasePrompt, k)
        THEN "GroundedSearch"
      ELSE "PlainText"

\* mutant: the search condition is tested before the URL condition
classifySearchFirst(prompt) ==
  LET lowerCasePrompt == toLowerCase(prompt)
  IN  IF \E k \in modificationKeywords : startsWith(lowerCasePrompt, k)
        THEN "CodeModification"
      ELSE IF \E k \in imageKeywords : includes(lowerCasePrompt, k)
        THEN "ImageGeneration"
      ELSE IF \E k \in searchKeywords : includes(lowerCasePrompt, k)
        THEN "GroundedSearch"
      ELSE IF urlMatch(prompt) # <<>>
        THEN "UrlAnalysis"
      ELSE IF \E k \in deployKeywords : includes(lowerCasePrompt, k)
        THEN "Deployment"
      ELSE "PlainText"

(***************************************************************************)
(* The if / else-if chain of handleSendMessage: which branch a prompt      *)
(* takes.  The first condition that holds decides.                         *)
(***************************************************************************)
classify(prompt) ==
  LET lowerCasePrompt == toLowerCase(prompt)
  IN  IF \E k \in modificationKeywords : startsWith(lowerCasePrompt, k)
        THEN "CodeModification"
      ELSE IF \E k \in imageKeywords : includes(lowerCasePrompt, k)
        THEN "ImageGeneration"
      ELSE IF urlMatch(prompt) # <<>>
        THEN "UrlAnalysis"
      ELSE IF \E k \in searchKeywords : includes(lowerCasePrompt, k)
        THEN "GroundedSearch"
      ELSE IF \E k \in deployKeywords : includes(lowerCasePrompt, k)
        THEN "Deployment"
      ELSE "PlainText"

(***************************************************************************)
(* State.                                                                  *)
(***************************************************************************)
VARIABLES
  messages,           \* App state: the transcript (useState<Message[]>)
  isLoading,          \* App state: the in-flight flag (useState<boolean>)
  renderedIsLoading,  \* isLoading as the last committed render captured it:
                      \* the value handleSendMessage and ChatInput read
  pc,                 \* where the accepted handleSendMessage is suspended
  prompt,             \* handleSendMessage: its argument
  now,                \* the clock behind Date.now()
  env,                \* process.env: GITHUB_TOKEN, NETLIFY_TOKEN, API_KEY
  deploymentMessageId,\* handleSendMessage: the id onProgress closes over
  files,              \* deployApp: the contents getProjectFiles resolved to
  fileIdx,            \* deployApp: the file whose upload is awaited
  netlifySite,        \* deployApp: ssl_url of the created site
  url,                \* handleSendMessage: urlMatch[0] of the URL branch
  runLog,             \* observation: the progress events, external calls and
                      \* their responses of the submission, in order
  handlerResult,      \* observation: how the promise of the last
                      \* handleSendMessage settled
  attempts,           \* observation: submits issued (accepted or rejected)
  accepted,           \* observation: submits accepted
  html,               \* observation: fetchWebsiteContent, the markup
                      \* response.text() resolved to
  content,            \* observation: what fetchWebsiteContent resolved to
  groundingChunks     \* observation: generateGroundedResponse, the
                      \* groundingChunks of the response

vars ==
  <<messages, isLoading, renderedIsLoading, pc, prompt, now, env,
    deploymentMessageId, files, fileIdx, netlifySite, url, runLog,
    handlerResult, attempts, accepted, html, content, groundingChunks>>

\* what stands for undefined in an optional string field
NoUrl == ""
NoStatus == ""
NoId == <<-1, "">>

(***************************************************************************)
(* Messages of the transcript (types.ts Message).  An id is                *)
(* Date.now().toString() followed by a suffix: the pair <<time, suffix>>.  *)
(***************************************************************************)
Message(id, text, sender, type) ==
  [id |-> id, text |-> text, sender |-> sender, type |-> type,
   deploymentStatus |-> NoStatus, deploymentUrl |-> NoUrl,
   analyzedUrl |-> <<>>, sources |-> <<>>, payload |-> "none"]

INITIAL_MESSAGE ==
  Message(<<-1, "alfreyaa-init">>,
          <<"Greetings, Kaarthi. Alfreyaa is operational.">>, "ai", "text")

(***************************************************************************)
(* Entries of runLog.                                                      *)
(***************************************************************************)
Event(status, message, u) ==
  [kind |-> "event", name |-> status, arg |-> 0, message |-> message, url |-> u]

Call(name, arg) ==
  [kind |-> "call", name |-> name, arg |-> arg, message |-> <<>>, url |-> NoUrl]

Resp(name, arg, outcome) ==
  [kind |-> "resp", name |-> name, arg |-> arg, message |-> <<outcome>>,
   url |-> NoUrl]

Timer ==
  [kind |-> "timer", name |-> "setTimeout", arg |-> 10000, message |-> <<>>,
   url |-> NoUrl]

(***************************************************************************)
(* deployApp: its progress events.                                         *)
(***************************************************************************)
\* mutant: the guard asks for both tokens to be absent
credentialsMissingBoth == env.GITHUB_TOKEN = "" /\ env.NETLIFY_TOKEN = ""

credentialsMissing == env.GITHUB_TOKEN = "" \/ env.NETLIFY_TOKEN = ""

EvCredentialsMissing ==
  Event("error",
        <<"My apologies, Kaarthi. I lack the required deployment credentials (GITHUB_TOKEN or NETLIFY_TOKEN) in my environment to proceed.">>,
        NoUrl)

EvInitializing ==
  Event("initializing", <<"Initializing deployment sequence...">>, NoUrl)

EvCreatingRepo ==
  Event("creating_repo",
        <<"Creating new GitHub repository: ", "alfreyaa-deployment-<Date.now()>">>,
        NoUrl)

EvPushingFiles ==
  Event("pushing_files", <<"Uploading application source code...">>, NoUrl)

\* mutant: the status of the step before is reported again
EvCreatingSiteRepeated ==
  Event("pushing_files", <<"Configuring deployment with Netlify...">>, NoUrl)

EvCreatingSite ==
  Event("creating_site", <<"Configuring deployment with Netlify...">>, NoUrl)

EvDeploying ==
  Event("deploying", <<"Deploying... This may take a moment.">>, NoUrl)

\* mutant: the success event leaves the url out
EvSuccessWithoutUrl(u) ==
  Event("success", <<"Deployment complete. The application is now live.">>, NoUrl)

EvSuccess(u) ==
  Event("success", <<"Deployment complete. The application is now live.">>, u)

\* mutant: the error event does not carry the failure's message
EvErrorGeneric(cause) ==
  Event("error",
        <<"I have failed in my deployment task, Kaarthi. An error occurred: ">>,
        NoUrl)

EvError(cause) ==
  Event("error",
        <<"I have failed in my deployment task, Kaarthi. An error occurred: ">>
          \o cause,
        NoUrl)

(***************************************************************************)
(* deployApp: what each stretch of the function between two awaits emits   *)
(* and calls, in program order.                                            *)
(***************************************************************************)
SegMissingCredentials == <<EvCredentialsMissing>>

SegInitializing == <<EvInitializing, Call("GET api.github.com/user", 0)>>

\* mutant: the repository is requested before the step is reported
SegCreatingRepoCallFirst ==
  <<Call("POST api.github.com/user/repos", 0), EvCreatingRepo>>

SegCreatingRepo == <<EvCreatingRepo, Call("POST api.github.com/user/repos", 0)>>

SegUpload(i) == <<Call("PUT api.github.com/repos/contents", i)>>

SegCreatingSite == <<EvCreatingSite, Call("POST api.netlify.com/sites", 0)>>

SegDeploying == <<EvDeploying, Timer>>

SegSuccess(u) == <<EvSuccess(u)>>

SegError(cause) == <<EvError(cause)>>

(***************************************************************************)
(* The outcomes of the external calls and the message of the Error each    *)
(* failure raises inside deployApp.                                        *)
(***************************************************************************)
\* the awaited fetch resolved 2xx and response.json() resolved / the fetch
\* resolved non-2xx / the fetch, or response.json() after it, rejected
HttpOutcomes == {"ok", "not_ok", "rejected"}

\* the write request's response is never inspected: it can only reject
UploadOutcomes == {"ok", "not_ok", "rejected"}

\* the site host's 2xx body: with its ssl_url, or without one
SiteOutcomes == HttpOutcomes \cup {"ok_no_url"}

SiteUrl == "https://alfreyaa.netlify.app"

\* the message of the Error a rejected promise carries
FetchRejection == <<"Failed to fetch">>

userFailure(outcome) ==
  CASE outcome = "rejected" -> FetchRejection
    [] outcome = "not_ok" -> <<"Failed to authenticate with GitHub.">>
    [] OTHER -> <<>>

repoFailure(outcome) ==
  CASE outcome = "rejected" -> FetchRejection
    [] outcome = "not_ok" ->
         <<"Failed to create GitHub repository. Status: ", "422">>
    [] OTHER -> <<>>

uploadFailure(outcome) ==
  IF outcome = "rejected" THEN FetchRejection ELSE <<>>

\* mutant: the response to the site request is not looked at
siteFailureIgnored(outcome) == <<>>

siteFailure(outcome) ==
  CASE outcome = "rejected" -> FetchRejection
    [] outcome = "not_ok" ->
         <<"Failed to create Netlify site. Status: ", "Unauthorized">>
    [] OTHER -> <<>>

\* getProjectFiles: a file's content; a failed fetch yields the empty text
FileContents == {<<>>, <<" ", "\n">>, <<"x">>}
FileOutcomes ==
  {[ok |-> FALSE, content |-> <<>>]}
    \cup {[ok |-> TRUE, content |-> c] : c \in FileContents}

fileContent(outcome) == IF outcome.ok THEN outcome.content ELSE <<>>

\* mutant: the loop pushes every file, the blank ones too
nextUploadAny(fs, i) == IF i < Len(fs) THEN i + 1 ELSE 0

\* deployApp's loop: the next file after i that is pushed (0: none is left)
nextUpload(fs, i) ==
  IF \E j \in (i + 1)..Len(fs) : ~isBlank(fs[j])
    THEN CHOOSE j \in (i + 1)..Len(fs) :
           /\ ~isBlank(fs[j])
           /\ \A k \in (i + 1)..(j - 1) : isBlank(fs[k])
    ELSE 0

(***************************************************************************)
(* handleSendMessage: onProgress, the callback deployApp reports through.  *)
(* It replaces the message that carries deploymentMessageId where it       *)
(* stands, or appends one when the transcript holds none.                  *)
(***************************************************************************)
\* mutant: the message is looked up by its type, not by its id
findIndexByType(msgs, id) ==
  IF \E i \in 1..Len(msgs) : msgs[i].type = "deployment"
    THEN CHOOSE i \in 1..Len(msgs) :
           /\ msgs[i].type = "deployment"
           /\ \A j \in 1..(i - 1) : msgs[j].type # "deployment"
    ELSE 0

findIndex(msgs, id) ==
  IF \E i \in 1..Len(msgs) : msgs[i].id = id
    THEN CHOOSE i \in 1..Len(msgs) :
           /\ msgs[i].id = id
           /\ \A j \in 1..(i - 1) : msgs[j].id # id
    ELSE 0

\* mutant: every event appends a message
onProgressAppends(msgs, id, update) ==
  Append(msgs,
         [Message(id, update.message, "ai", "deployment")
            EXCEPT !.deploymentStatus = update.name,
                   !.deploymentUrl = update.url])

onProgress(msgs, id, update) ==
  LET existingMsgIndex == findIndex(msgs, id)
  IN  IF existingMsgIndex > 0
        THEN [msgs EXCEPT ![existingMsgIndex] =
                [@ EXCEPT !.text = update.message,
                          !.deploymentStatus = update.name,
                          !.deploymentUrl = update.url]]
        ELSE Append(msgs,
                    [Message(id, update.message, "ai", "deployment")
                       EXCEPT !.deploymentStatus = update.name,
                              !.deploymentUrl = update.url])

\* the transcript after the events of a stretch of deployApp, in order
RECURSIVE report(_, _, _)
report(msgs, id, seg) ==
  IF seg = <<>> THEN msgs
  ELSE report(IF Head(seg).kind = "event"
                THEN onProgress(msgs, id, Head(seg))
                ELSE msgs,
              id, Tail(seg))

(***************************************************************************)
(* geminiService: the adapters' fixed texts and the provider's outcomes.   *)
(***************************************************************************)
initializeAi == env.API_KEY # ""

handleMissingApiKey ==
  <<"My apologies, Kaarthi. I am not properly configured. The API_KEY is missing from my environment.">>

\* generateContent resolved / rejected
ContentOutcomes == {"ok", "error"}

\* generateImages resolved with an image / resolved with none / resolved with
\* an entry that holds no image / rejected / rejected with a message that
\* names the API_KEY
ImageOutcomes == {"ok", "zero_images", "bad_shape", "error", "error_api_key"}

\* the code-modification response: the structure asked for / a rejected call
\* / text that is no JSON / the JSON null / JSON of another shape
ModificationOutcomes == {"ok", "error", "not_json", "json_null", "json_other"}

ProviderText == <<"<response.text>">>

generateTextResponse(outcome) ==
  IF outcome = "ok" THEN ProviderText
  ELSE <<"Apologies, Kaarthi. I seem to be experiencing a system malfunction.">>

\* a grounding chunk: chunk.web, when there is one, with its uri and title;
\* the empty text stands for a field that is missing or empty
NoWeb == [web |-> FALSE, uri |-> "", title |-> ""]

Web(uri, title) == [web |-> TRUE, uri |-> uri, title |-> title]

Chunks ==
  {NoWeb, Web("a", "X"), Web("a", "Y"), Web("b", "Z"), Web("a", ""), Web("", "X")}

\* the filter / map chain of generateGroundedResponse
groundedSources(chunks) ==
  LET webs == SelectSeq(chunks, LAMBDA chunk : chunk.web)
      named == SelectSeq(webs, LAMBDA web : web.uri # "" /\ web.title # "")
  IN  [i \in 1..Len(named) |-> [uri |-> named[i].uri, title |-> named[i].title]]

\* mutant: the first source of a uri is kept
uniqueSourcesFirstWins(sources) ==
  LET marked == [i \in 1..Len(sources) |->
                   [first |-> \A j \in 1..(i - 1) : sources[j].uri # sources[i].uri,
                    item |-> sources[i]]]
      firsts == SelectSeq(marked, LAMBDA e : e.first)
  IN  [i \in 1..Len(firsts) |-> firsts[i].item]

\* Array.from(new Map(sources.map(item => [item.uri, item])).values()): a
\* key keeps the place of its first insertion and the value of its last
uniqueSources(sources) ==
  LET last(i) == CHOOSE j \in i..Len(sources) :
                   /\ sources[j].uri = sources[i].uri
                   /\ \A k \in (j + 1)..Len(sources) : sources[k].uri # sources[i].uri
      marked == [i \in 1..Len(sources) |->
                   [first |-> \A j \in 1..(i - 1) : sources[j].uri # sources[i].uri,
                    item |-> sources[last(i)]]]
      firsts == SelectSeq(marked, LAMBDA e : e.first)
  IN  [i \in 1..Len(firsts) |-> firsts[i].item]

\* the grounding chunks a search response may carry
GroundingChunks == { <<Web("a", "X"), Web("a", "Y"), Web("b", "Z")>> }

generateGroundedResponse(outcome) ==
  IF outcome = "ok" THEN ProviderText
  ELSE <<"Apologies, Kaarthi. I encountered an issue while accessing my information retrieval systems.">>

generateWebsiteAnalysis(outcome) ==
  IF outcome = "ok" THEN ProviderText
  ELSE <<"My apologies, Kaarthi. I encountered an error while analyzing the website content.">>

\* mutant: generatedImages[0] is read without looking at the length
generateImageResponseUnchecked(outcome) ==
  CASE outcome \in {"ok", "zero_images"} ->
         [threw |-> FALSE, value |-> <<"data:image/jpeg;base64,", "<imageBytes>">>]
    [] outcome = "error_api_key" ->
         [threw |-> TRUE, value |-> <<"API_KEY not valid.">>]
    [] OTHER ->
         [threw |-> TRUE,
          value |-> <<"I was unable to generate the image as requested, Kaarthi.">>]

\* generateImageResponse: what it returns or throws
generateImageResponse(outcome) ==
  CASE outcome = "ok" ->
         [threw |-> FALSE, value |-> <<"data:image/jpeg;base64,", "<imageBytes>">>]
    [] outcome = "error_api_key" ->
         [threw |-> TRUE, value |-> <<"API_KEY not valid.">>]
    [] OTHER ->
         [threw |-> TRUE,
          value |-> <<"I was unable to generate the image as requested, Kaarthi.">>]

\* generateCodeModification: the payload it resolves to
ModificationFailure ==
  <<"My apologies, Kaarthi. I encountered a critical error in my self-modification subroutines. I was unable to process the requested change.">>

generateCodeModification(outcome) ==
  CASE outcome = "ok" ->
         [isNull |-> FALSE, explanation |-> <<"<explanation>">>, changes |-> "list"]
    [] outcome = "json_null" ->
         [isNull |-> TRUE, explanation |-> <<>>, changes |-> "undefined"]
    [] outcome = "json_other" ->
         [isNull |-> FALSE, explanation |-> <<>>, changes |-> "undefined"]
    [] OTHER ->
         [isNull |-> FALSE, explanation |-> ModificationFailure, changes |-> "empty"]

\* fetchWebsiteContent: fetch resolved 2xx / resolved non-2xx / rejected
ExtractOutcomes == {"ok", "not_ok", "rejected"}

\* mutant: response.ok is not looked at
extractFailsOnRejection(outcome) == outcome = "rejected"

\* fetchWebsiteContent throws: the fetch rejected, or !response.ok
extractFails(outcome) == outcome # "ok"

(***************************************************************************)
(* websiteService: markup is a sequence of pieces, each a character of     *)
(* text or one whole match of a regular expression of the cleaning: a      *)
(* style block, a script block, a tag.                                     *)
(***************************************************************************)
StyleBlocks == {"<style>p{}</style>", "<STYLE media=all>\n</STYLE>"}
ScriptBlocks == {"<script>a()</script>", "<SCRIPT src=x></SCRIPT>"}
Tags == {"<p>", "</p>", "<br/>"}

maxLength == 15000

\* String.prototype.substring(a, b) for 0 <= a <= b
substring(s, a, b) ==
  SubSeq(s, a + 1, IF b < Len(s) THEN b ELSE Len(s))

\* trim() of a text whose white space is already collapsed: at most one
\* space stands at either end
trim(s) ==
  LET from == IF s # <<>> /\ s[1] \in WhiteSpace THEN 2 ELSE 1
      to == IF Len(s) >= from /\ s[Len(s)] \in WhiteSpace THEN Len(s) - 1 ELSE Len(s)
  IN  SubSeq(s, from, to)

\* the four replace calls and the trim
cleanedText(markup) ==
  LET noStyle == SelectSeq(markup, LAMBDA t : t \notin StyleBlocks)
      noScript == SelectSeq(noStyle, LAMBDA t : t \notin ScriptBlocks)
      noTags == SelectSeq(noScript, LAMBDA t : t \notin Tags)
      marked == [i \in 1..Len(noTags) |->
                   [c |-> noTags[i],
                    follows |-> i > 1 /\ noTags[i - 1] \in WhiteSpace]]
      runsHeads == SelectSeq(marked, LAMBDA e : ~(e.c \in WhiteSpace /\ e.follows))
      collapsed == [i \in 1..Len(runsHeads) |->
                      IF runsHeads[i].c \in WhiteSpace THEN " " ELSE runsHeads[i].c]
  IN  trim(collapsed)

\* mutant: the cleaned text is returned whole
fetchWebsiteContentWhole(markup) == cleanedText(markup)

\* fetchWebsiteContent, once the markup has arrived
fetchWebsiteContent(markup) == substring(cleanedText(markup), 0, maxLength)

\* the markup the proxy may answer with
Markups ==
  { <<>>,
    <<"<p>", " ", "a", "\n", " ", "b", "</p>", "<style>p{}</style>", " ">> }

ExtractFailure ==
  <<"I was unable to access or process the content from the provided URL, Kaarthi.">>

(***************************************************************************)
(* The inputs of the model.                                                *)
(***************************************************************************)
\* process.env at load: a variable that is not set reads as the empty text
Environments ==
  { [GITHUB_TOKEN |-> "ghp_token", NETLIFY_TOKEN |-> "nfp_token", API_KEY |-> "key"],
    [GITHUB_TOKEN |-> "", NETLIFY_TOKEN |-> "nfp_token", API_KEY |-> ""],
    [GITHUB_TOKEN |-> "ghp_token", NETLIFY_TOKEN |-> "", API_KEY |-> "key"] }

PromptModify == <<"u","p","d","a","t","e"," ","t","h","e">>
PromptImage == <<"g","e","n","e","r","a","t","e"," ","i","m","a","g","e">>
PromptUrl == <<"h","t","t","p",":","/","/","a">>
PromptSearch == <<"l","a","t","e","s","t">>
PromptDeploy == <<"d","e","p","l","o","y">>
PromptText == <<"h","i">>

Prompts ==
  {PromptModify, PromptImage, PromptUrl, PromptSearch, PromptDeploy, PromptText}

Init ==
  /\ messages = <<INITIAL_MESSAGE>>
  /\ isLoading = FALSE
  /\ renderedIsLoading = FALSE
  /\ pc = "idle"
  /\ prompt = <<>>
  /\ now = 0
  /\ env \in Environments
  /\ deploymentMessageId = NoId
  /\ files = <<>>
  /\ fileIdx = 0
  /\ netlifySite = NoUrl
  /\ url = <<>>
  /\ runLog = <<>>
  /\ handlerResult = "none"
  /\ attempts = 0
  /\ accepted = 0
  /\ html = <<>>
  /\ content = <<>>
  /\ groundingChunks = <<>>

(***************************************************************************)
(* handleSendMessage: how a stretch of it ends.                            *)
(***************************************************************************)
\* the locals that live across awaits
Locals(id, fs, idx, site, u) ==
  /\ deploymentMessageId' = id
  /\ files' = fs
  /\ fileIdx' = idx
  /\ netlifySite' = site
  /\ url' = u

NoLocals == Locals(deploymentMessageId, <<>>, 0, NoUrl, <<>>)

\* it suspends at an await, the flag set
Await(msgs, log, at) ==
  /\ messages' = msgs
  /\ runLog' = log
  /\ pc' = at
  /\ isLoading' = TRUE
  /\ handlerResult' = "pending"

\* it runs to its end through the finally block, which clears the flag
Return(msgs, log) ==
  /\ messages' = msgs
  /\ runLog' = log
  /\ pc' = "idle"
  /\ isLoading' = FALSE
  /\ handlerResult' = "fulfilled"

\* the catch block: every value thrown in the try block here is an Error,
\* and its message becomes the text of an error message
errorMessage(error) == Message(<<now, "-err">>, error, "ai", "error")

\* mutant: the flag is cleared at the end of the try block, not in a finally
ThrowPastReset(msgs, log, error) ==
  /\ messages' = Append(msgs, errorMessage(error))
  /\ runLog' = log
  /\ pc' = "idle"
  /\ isLoading' = TRUE
  /\ handlerResult' = "fulfilled"

\* mutant: no catch block, the finally block alone
ThrowUncaught(msgs, log, error) ==
  /\ messages' = msgs
  /\ runLog' = log
  /\ pc' = "idle"
  /\ isLoading' = FALSE
  /\ handlerResult' = "rejected"

Throw(msgs, log, error) == Return(Append(msgs, errorMessage(error)), log)

aiMessage(suffix, text, type) == Message(<<now, suffix>>, text, "ai", type)

aiModificationMessage(payload) ==
  [aiMessage("-ai-mod", payload.explanation, "code_modification")
     EXCEPT !.payload = payload.changes]

aiAnalysisMessage(text, u) ==
  [aiMessage("-ai-web", text, "website_analysis") EXCEPT !.analyzedUrl = u]

NullPayloadError == <<"Cannot read properties of null (reading 'explanation')">>

\* getProjectFiles: the fetches it starts, and the contents it resolves to;
\* it catches a failed fetch and resolves that file to the empty text
SegProjectFiles == [i \in 1..MaxFiles |-> Call("GET project file", i)]

getProjectFiles(outs) == [i \in 1..MaxFiles |-> fileContent(outs[i])]

\* observation: what the fetch of file i came to, and the content
\* getProjectFiles resolved the file to
FileResp(i, out) ==
  [kind |-> IF out.ok THEN "file" ELSE "file_failed",
   name |-> "GET project file", arg |-> i, message |-> fileContent(out),
   url |-> NoUrl]

SegFilesResolved(outs) == [i \in 1..MaxFiles |-> FileResp(i, outs[i])]

(***************************************************************************)
(* handleSendMessage up to the first await of the branch the prompt takes. *)
(***************************************************************************)
StartModification(m0) ==
  /\ Await(m0, SegProjectFiles, "project_files_mod")
  /\ NoLocals

StartImage(m0) ==
  /\ IF ~initializeAi
       THEN Throw(m0, <<>>, handleMissingApiKey)
       ELSE Await(m0, <<Call("generateImages", 0)>>, "image")
  /\ NoLocals

StartUrl(m0, p) ==
  /\ Await(m0, <<Call("GET api.allorigins.win/raw", 0)>>, "extract")
  /\ Locals(deploymentMessageId, <<>>, 0, NoUrl, urlMatch(p))

StartSearch(m0) ==
  /\ IF ~initializeAi
       THEN Return(Append(m0, aiMessage("-ai-grd", handleMissingApiKey,
                                        "grounded_text")), <<>>)
       ELSE Await(m0, <<Call("generateContent (search)", 0)>>, "search")
  /\ NoLocals

StartDeploy(m0) ==
  LET id == <<now, "-ai-deploy">>
  IN  /\ IF credentialsMissing
           THEN Return(report(m0, id, SegMissingCredentials),
                       SegMissingCredentials)
           ELSE Await(report(m0, id, SegInitializing), SegInitializing,
                      "github_user")
      /\ Locals(id, <<>>, 0, NoUrl, <<>>)

StartText(m0) ==
  /\ IF ~initializeAi
       THEN Return(Append(m0, aiMessage("-ai-txt", handleMissingApiKey, "text")),
                   <<>>)
       ELSE Await(m0, <<Call("generateContent (text)", 0)>>, "text")
  /\ NoLocals

\* mutant: no guard, every submit is taken
rejectsNothing == FALSE

\* mutant: the guard holds only once the handler has run to its end
rejectsWhenIdle == renderedIsLoading /\ pc = "idle"

\* the guard of handleSendMessage, and of ChatInput.handleSubmit before it:
\* both read the flag of the render they were created in
rejects == renderedIsLoading

\* an accepted submit
SubmitCommand(p) ==
  /\ ~rejects
  /\ ~isBlank(p)
  /\ attempts < MaxSubmits
  /\ attempts' = attempts + 1
  /\ accepted' = accepted + 1
  /\ prompt' = p
  /\ renderedIsLoading' = TRUE
  /\ UNCHANGED <<now, env, html, content, groundingChunks>>
  /\ LET userMessage == Message(<<now, "">>, p, "user", "text")
         m0 == Append(messages, userMessage)
         intent == classify(p)
     IN  CASE intent = "CodeModification" -> StartModification(m0)
           [] intent = "ImageGeneration" -> StartImage(m0)
           [] intent = "UrlAnalysis" -> StartUrl(m0, p)
           [] intent = "GroundedSearch" -> StartSearch(m0)
           [] intent = "Deployment" -> StartDeploy(m0)
           [] OTHER -> StartText(m0)

Submit == \E p \in Prompts : SubmitCommand(p)

\* a submit while the rendered flag is set: both guards return
SubmitRejected ==
  /\ rejects
  /\ attempts < MaxSubmits
  /\ attempts' = attempts + 1
  /\ UNCHANGED <<messages, isLoading, renderedIsLoading, pc, prompt, now, env,
                 deploymentMessageId, files, fileIdx, netlifySite, url, runLog,
                 handlerResult, accepted, html, content, groundingChunks>>

(***************************************************************************)
(* The continuations of the branches other than the deployment.            *)
(***************************************************************************)
Continue ==
  UNCHANGED <<renderedIsLoading, prompt, now, env, attempts, accepted, html,
              content, groundingChunks>>

ModificationFilesResolve ==
  /\ pc = "project_files_mod"
  /\ Continue
  /\ NoLocals
  /\ \E outs \in [1..MaxFiles -> FileOutcomes] :
       LET log == runLog
           projectFiles == getProjectFiles(outs)
       IN  IF ~initializeAi
             THEN Return(Append(messages,
                           aiModificationMessage(
                             [isNull |-> FALSE,
                              explanation |-> handleMissingApiKey,
                              changes |-> "empty"])), log)
             ELSE Await(messages,
                        Append(log, Call("generateContent (modification)", 0)),
                        "modification")

ModificationResolve ==
  /\ pc = "modification"
  /\ Continue
  /\ NoLocals
  /\ \E o \in ModificationOutcomes :
       LET log == Append(runLog, Resp("generateContent (modification)", 0, o))
           modificationPayload == generateCodeModification(o)
       IN  IF modificationPayload.isNull
             THEN Throw(messages, log, NullPayloadError)
             ELSE Return(Append(messages,
                                aiModificationMessage(modificationPayload)), log)

ImageResolve ==
  /\ pc = "image"
  /\ Continue
  /\ NoLocals
  /\ \E o \in ImageOutcomes :
       LET log == Append(runLog, Resp("generateImages", 0, o))
           r == generateImageResponse(o)
       IN  IF r.threw
             THEN Throw(messages, log, r.value)
             ELSE Return(Append(messages,
                           [aiMessage("-ai-img",
                              <<"As you wish, Kaarthi. Here is the generated image.">>,
                              "image") EXCEPT !.payload = "imageUrl"]), log)

ExtractResolveOf(markups) ==
  /\ pc = "extract"
  /\ UNCHANGED <<renderedIsLoading, prompt, now, env, attempts, accepted,
                 groundingChunks>>
  /\ \E o \in ExtractOutcomes :
       \E markup \in IF extractFails(o) THEN {<<>>} ELSE markups :
         LET log == Append(runLog, Resp("GET api.allorigins.win/raw", 0, o))
         IN  IF extractFails(o)
               THEN /\ Throw(messages, log, ExtractFailure)
                    /\ NoLocals
                    /\ html' = <<>>
                    /\ content' = <<>>
               ELSE /\ html' = markup
                    /\ content' = fetchWebsiteContent(markup)
                    /\ IF ~initializeAi
                         THEN /\ Return(Append(messages,
                                          aiAnalysisMessage(handleMissingApiKey,
                                                            url)), log)
                              /\ NoLocals
                         ELSE /\ Await(messages,
                                       Append(log,
                                              Call("generateContent (analysis)", 0)),
                                       "analysis")
                              /\ UNCHANGED <<deploymentMessageId, files, fileIdx,
                                             netlifySite, url>>

ExtractResolve == ExtractResolveOf(Markups)

AnalysisResolve ==
  /\ pc = "analysis"
  /\ Continue
  /\ NoLocals
  /\ \E o \in ContentOutcomes :
       Return(Append(messages,
                     aiAnalysisMessage(generateWebsiteAnalysis(o), url)),
              Append(runLog, Resp("generateContent (analysis)", 0, o)))

SearchResolveOf(chunkLists) ==
  /\ pc = "search"
  /\ UNCHANGED <<renderedIsLoading, prompt, now, env, attempts, accepted, html,
                 content>>
  /\ NoLocals
  /\ \E o \in ContentOutcomes :
       \E chunks \in IF o = "ok" THEN chunkLists ELSE {<<>>} :
         /\ groundingChunks' = chunks
         /\ Return(Append(messages,
                          [aiMessage("-ai-grd", generateGroundedResponse(o),
                                     "grounded_text")
                             EXCEPT !.payload = "sources",
                                    !.sources = uniqueSources(groundedSources(chunks))]),
                   Append(runLog, Resp("generateContent (search)", 0, o)))

SearchResolve == SearchResolveOf(GroundingChunks)

TextResolve ==
  /\ pc = "text"
  /\ Continue
  /\ NoLocals
  /\ \E o \in ContentOutcomes :
       Return(Append(messages,
                     aiMessage("-ai-txt", generateTextResponse(o), "text")),
              Append(runLog, Resp("generateContent (text)", 0, o)))

(***************************************************************************)
(* deployApp after its first await.  Each action resumes it with the       *)
(* outcome of the call it awaits and runs it to the next await, or to its  *)
(* end: deployApp catches what it throws, so handleSendMessage then runs   *)
(* through its finally block in the same task.                             *)
(***************************************************************************)
\* mutant: the catch block deletes the repository before it reports
DeployFailRollback(log, cause) ==
  /\ Return(report(messages, deploymentMessageId, SegError(cause)),
            log \o <<Call("DELETE api.github.com/repos", 0)>> \o SegError(cause))
  /\ NoLocals

\* the catch block of deployApp
DeployFail(log, cause) ==
  /\ Return(report(messages, deploymentMessageId, SegError(cause)),
            log \o SegError(cause))
  /\ NoLocals

DeployAwait(log, seg, at) ==
  Await(report(messages, deploymentMessageId, seg), log \o seg, at)

\* the upload loop from file i on: the next upload, or the site request
DeployUploadFrom(log, fs, i) ==
  LET j == nextUpload(fs, i)
  IN  IF j > 0
        THEN /\ DeployAwait(log, SegUpload(j), "upload")
             /\ Locals(deploymentMessageId, fs, j, NoUrl, <<>>)
        ELSE /\ DeployAwait(log, SegCreatingSite, "netlify_site")
             /\ NoLocals

UserResolve ==
  /\ pc = "github_user"
  /\ Continue
  /\ \E o \in HttpOutcomes :
       LET log == Append(runLog, Resp("GET api.github.com/user", 0, o))
       IN  IF o = "ok"
             THEN DeployAwait(log, SegCreatingRepo, "github_repo") /\ NoLocals
             ELSE DeployFail(log, userFailure(o))

RepoResolve ==
  /\ pc = "github_repo"
  /\ Continue
  /\ \E o \in HttpOutcomes :
       LET log == Append(runLog, Resp("POST api.github.com/user/repos", 0, o))
       IN  IF o = "ok"
             THEN /\ DeployAwait(log, <<EvPushingFiles>> \o SegProjectFiles,
                                 "project_files")
                  /\ NoLocals
             ELSE DeployFail(log, repoFailure(o))

DeployFilesResolve ==
  /\ pc = "project_files"
  /\ Continue
  /\ \E outs \in [1..MaxFiles -> FileOutcomes] :
       DeployUploadFrom(runLog \o SegFilesResolved(outs), getProjectFiles(outs), 0)

UploadResolve ==
  /\ pc = "upload"
  /\ Continue
  /\ \E o \in UploadOutcomes :
       LET log == Append(runLog,
                         Resp("PUT api.github.com/repos/contents", fileIdx, o))
       IN  IF uploadFailure(o) # <<>>
             THEN DeployFail(log, uploadFailure(o))
             ELSE DeployUploadFrom(log, files, fileIdx)

SiteResolve ==
  /\ pc = "netlify_site"
  /\ Continue
  /\ \E o \in SiteOutcomes :
       LET log == Append(runLog, Resp("POST api.netlify.com/sites", 0, o))
       IN  IF siteFailure(o) # <<>>
             THEN DeployFail(log, siteFailure(o))
             ELSE /\ DeployAwait(log, SegDeploying, "timer")
                  /\ Locals(deploymentMessageId, <<>>, 0,
                            IF o = "ok" THEN SiteUrl ELSE NoUrl, <<>>)

TimerFires ==
  /\ pc = "timer"
  /\ Continue
  /\ Return(report(messages, deploymentMessageId, SegSuccess(netlifySite)),
            runLog \o SegSuccess(netlifySite))
  /\ NoLocals

(***************************************************************************)
(* The environment of the handler.                                         *)
(***************************************************************************)
\* React commits a render: the closures and props now hold the flag's value.
\* The observation of the finished submission ends here.
Render ==
  /\ renderedIsLoading # isLoading
  /\ renderedIsLoading' = isLoading
  /\ runLog' = <<>>
  /\ html' = <<>>
  /\ content' = <<>>
  /\ groundingChunks' = <<>>
  /\ UNCHANGED <<messages, isLoading, pc, prompt, now, env, deploymentMessageId,
                 files, fileIdx, netlifySite, url, handlerResult, attempts,
                 accepted>>

\* handleClearHistory, confirmed
ClearHistory ==
  /\ messages' = <<INITIAL_MESSAGE>>
  /\ UNCHANGED <<isLoading, renderedIsLoading, pc, prompt, now, env,
                 deploymentMessageId, files, fileIdx, netlifySite, url, runLog,
                 handlerResult, attempts, accepted, html, content,
                 groundingChunks>>

\* mutant: a submission in flight is given up when the clock advances
TickTimesOut ==
  /\ now < MaxNow
  /\ now' = now + 1
  /\ pc' = "idle"
  /\ isLoading' = FALSE
  /\ UNCHANGED <<messages, renderedIsLoading, prompt, env, deploymentMessageId,
                 files, fileIdx, netlifySite, url, runLog, handlerResult,
                 attempts, accepted, html, content, groundingChunks>>

\* time passes
Tick ==
  /\ now < MaxNow
  /\ now' = now + 1
  /\ UNCHANGED <<messages, isLoading, renderedIsLoading, pc, prompt, env,
                 deploymentMessageId, files, fileIdx, netlifySite, url, runLog,
                 handlerResult, attempts, accepted, html, content,
                 groundingChunks>>

Resolve ==
  \/ ModificationFilesResolve
  \/ ModificationResolve
  \/ ImageResolve
  \/ ExtractResolve
  \/ AnalysisResolve
  \/ SearchResolve
  \/ TextResolve
  \/ UserResolve
  \/ RepoResolve
  \/ DeployFilesResolve
  \/ UploadResolve
  \/ SiteResolve
  \/ TimerFires

Next ==
  \/ Submit
  \/ SubmitRejected
  \/ Resolve
  \/ Render
  \/ ClearHistory
  \/ Tick

Spec == Init /\ [][Next]_vars

(***************************************************************************)
(* One deployment run, from the submit that starts it to its end, with     *)
(* the rest of the environment running beside it.                          *)
(***************************************************************************)
SubmitDeploy == accepted = 0 /\ SubmitCommand(PromptDeploy)

DeployResolve ==
  \/ UserResolve
  \/ RepoResolve
  \/ DeployFilesResolve
  \/ UploadResolve
  \/ SiteResolve
  \/ TimerFires

NextRun ==
  \/ SubmitDeploy
  \/ SubmitRejected
  \/ DeployResolve
  \/ Render
  \/ ClearHistory
  \/ Tick

SpecRun == Init /\ [][NextRun]_vars

(***************************************************************************)
(* What the claims read off the observation of a submission.               *)
(***************************************************************************)
\* the submission has run to its end and its observation is still held
finished == pc = "idle" /\ ~isLoading /\ renderedIsLoading

\* the submission is a deployment run
deployRun == \E k \in deployKeywords : includes(toLowerCase(prompt), k)

eventsOf(log) == SelectSeq(log, LAMBDA e : e.kind = "event")
callsOf(log) == SelectSeq(log, LAMBDA e : e.kind = "call")
responsesOf(log) == SelectSeq(log, LAMBDA e : e.kind = "resp")
statusesOf(log) == [i \in 1..Len(eventsOf(log)) |-> eventsOf(log)[i].name]

nonEmptyText(text) == \E i \in 1..Len(text) : text[i] # ""

isSuffix(t, text) ==
  /\ Len(t) <= Len(text)
  /\ SubSeq(text, Len(text) - Len(t) + 1, Len(text)) = t

\* C1: a run started with either credential absent emits exactly one event,
\* an error, and makes no network call (nor anything else) at any point.
C1_MissingCredentials ==
  (deployRun /\ (env.GITHUB_TOKEN = "" \/ env.NETLIFY_TOKEN = "")) =>
    /\ callsOf(runLog) = <<>>
    /\ pc = "idle"
    /\ finished =>
         /\ Len(runLog) = 1
         /\ runLog[1].kind = "event"
         /\ runLog[1].name = "error"
         /\ nonEmptyText(runLog[1].message)

C1_Witness ==
  /\ finished
  /\ deployRun
  /\ env.GITHUB_TOKEN # ""
  /\ env.NETLIFY_TOKEN = ""
  /\ statusesOf(runLog) = <<"error">>

\* every external call of the run so far succeeded
allSucceeded(log) ==
  \A i \in 1..Len(log) : log[i].kind = "resp" => log[i].message = <<"ok">>

HappyStatuses ==
  <<"initializing", "creating_repo", "pushing_files", "creating_site",
    "deploying", "success">>

\* C2: a finished run with both credentials present and every external call
\* successful has emitted exactly initializing, creating_repo, pushing_files,
\* creating_site, deploying, success, in this order, each with a non-empty
\* message, and its success event carries a non-empty url.
C2_HappyPath ==
  ( /\ deployRun
    /\ finished
    /\ env.GITHUB_TOKEN # ""
    /\ env.NETLIFY_TOKEN # ""
    /\ allSucceeded(runLog) ) =>
    LET ev == eventsOf(runLog)
    IN  /\ statusesOf(runLog) = HappyStatuses
        /\ \A i \in 1..Len(ev) : nonEmptyText(ev[i].message)
        /\ ev[Len(ev)].url # ""

C2_Witness ==
  /\ deployRun
  /\ finished
  /\ allSucceeded(runLog)
  /\ statusesOf(runLog) = HappyStatuses
  /\ Len(responsesOf(runLog)) = 3 + MaxFiles

statusRank(status) ==
  CASE status = "initializing" -> 1
    [] status = "creating_repo" -> 2
    [] status = "pushing_files" -> 3
    [] status = "creating_site" -> 4
    [] status = "deploying" -> 5
    [] status = "success" -> 6
    [] status = "error" -> 7

\* C3: the statuses a run emits only advance along initializing <
\* creating_repo < pushing_files < creating_site < deploying < success, with
\* error allowed after any of them, and nothing follows a success or an error.
C3_StatusAdvances ==
  deployRun =>
    LET st == statusesOf(runLog)
    IN  /\ \A i, j \in 1..Len(st) : i < j => statusRank(st[i]) < statusRank(st[j])
        /\ \A i \in 1..Len(runLog) :
             (runLog[i].kind = "event" /\ runLog[i].name \in {"success", "error"})
               => (i = Len(runLog) /\ pc = "idle")

C3_Witness ==
  /\ deployRun
  /\ finished
  /\ statusesOf(runLog) =
       <<"initializing", "creating_repo", "pushing_files", "creating_site", "error">>

\* the message of the failure a response raises in deployApp (<<>>: none)
failureOf(entry) ==
  CASE entry.name = "GET api.github.com/user" -> userFailure(entry.message[1])
    [] entry.name = "POST api.github.com/user/repos" -> repoFailure(entry.message[1])
    [] entry.name = "PUT api.github.com/repos/contents" ->
         uploadFailure(entry.message[1])
    [] entry.name = "POST api.netlify.com/sites" -> siteFailure(entry.message[1])
    [] OTHER -> <<>>

\* C4: once a step of the run has failed, the run has emitted exactly one
\* more thing, an error event whose message ends with the failure's message,
\* and is over: no later event, no further call, nothing retried.
C4_FailureIsTerminal ==
  deployRun =>
    \A i \in 1..Len(runLog) :
      (runLog[i].kind = "resp" /\ failureOf(runLog[i]) # <<>>) =>
        /\ Len(runLog) = i + 1
        /\ runLog[i + 1].kind = "event"
        /\ runLog[i + 1].name = "error"
        /\ isSuffix(failureOf(runLog[i]), runLog[i + 1].message)
        /\ Len(SelectSeq(runLog, LAMBDA e : e.kind = "event" /\ e.name = "error")) = 1
        /\ pc = "idle"

C4_Witness ==
  /\ deployRun
  /\ finished
  /\ \E i \in 1..Len(runLog) :
       /\ runLog[i] = Resp("PUT api.github.com/repos/contents", MaxFiles, "rejected")
       /\ runLog[i + 1].name = "error"

\* an event of this status stands before position i of the log
emittedBefore(log, i, status) ==
  \E j \in 1..(i - 1) : log[j].kind = "event" /\ log[j].name = status

\* every call or timer of the log stands after the event of its step
afterStepEvent(log, stepOf(_)) ==
  \A i \in 1..Len(log) :
    log[i].kind \in {"call", "timer"} => emittedBefore(log, i, stepOf(log[i]))

\* the step each action belongs to, as the claim has it
claimedStepOf(entry) ==
  CASE entry.kind = "timer" -> "deploying"
    [] entry.name = "GET api.github.com/user" -> "creating_repo"
    [] entry.name = "POST api.github.com/user/repos" -> "creating_repo"
    [] entry.name = "GET project file" -> "pushing_files"
    [] entry.name = "PUT api.github.com/repos/contents" -> "pushing_files"
    [] entry.name = "POST api.netlify.com/sites" -> "creating_site"

\* the same, with authentication and the owner's resolution in the
\* initializing step
amendedStepOf(entry) ==
  IF entry.kind = "call" /\ entry.name = "GET api.github.com/user"
    THEN "initializing"
    ELSE claimedStepOf(entry)

\* C5 as claimed: authentication, repository creation, uploads, the site
\* request and the delay each happen only after the event of their step,
\* authentication after creating_repo.
C5_Original == deployRun => afterStepEvent(runLog, claimedStepOf)

\* C5 amended: authentication to the repository host and the resolution of
\* the owning account happen only after the initializing event; repository
\* creation only after creating_repo; file fetches and uploads only after
\* pushing_files; the site request only after creating_site; the delay only
\* after deploying.
C5_EventBeforeAction == deployRun => afterStepEvent(runLog, amendedStepOf)

C5_Witness ==
  /\ deployRun
  /\ finished
  /\ \E i \in 1..Len(runLog) : runLog[i].kind = "timer"
  /\ \E i \in 1..Len(runLog) :
       runLog[i].kind = "call" /\ runLog[i].name = "PUT api.github.com/repos/contents"

(***************************************************************************)
(* The session controller under fair scheduling: a pending external call   *)
(* returns or fails, a timer fires, and React commits a scheduled render.  *)
(***************************************************************************)
FairSpec == Spec /\ WF_vars(Resolve) /\ WF_vars(Render)

\* a step of the accepted handleSendMessage
handlerStep ==
  \/ accepted' # accepted
  \/ pc # "idle" /\ (pc' # pc \/ runLog' # runLog)

\* the step in which a submission runs to its end
completes == handlerStep /\ pc' = "idle"

\* the transcript the step starts from: with the user message, when the
\* step is the submit
baseMessages ==
  IF accepted' # accepted
    THEN Append(messages, Message(<<now, "">>, prompt', "user", "text"))
    ELSE messages

\* the events the step emits
emitted ==
  IF accepted' # accepted
    THEN eventsOf(runLog')
    ELSE SubSeq(eventsOf(runLog'), Len(eventsOf(runLog)) + 1, Len(eventsOf(runLog')))

deployStep == \E k \in deployKeywords : includes(toLowerCase(prompt'), k)

\* C6: a submit issued while a submission is in flight changes nothing but
\* the count of attempts: no message, no call, no event, no move of the
\* submission in flight.
C6_RejectedWhileInFlight ==
  [][ (attempts' # attempts /\ pc # "idle") =>
        /\ accepted' = accepted
        /\ UNCHANGED <<messages, isLoading, renderedIsLoading, pc, prompt,
                       deploymentMessageId, files, fileIdx, netlifySite, url,
                       runLog, handlerResult, html, content,
                       groundingChunks>> ]_vars

C6_Witness == accepted = 1 /\ attempts > 1 /\ pc # "idle"

\* C7: under fair scheduling the flag set by an accepted submission is
\* cleared again, whatever the branch and the outcome, and is rendered
\* cleared; and whenever it is rendered cleared a submit is accepted.
C7_FlagCleared ==
  /\ isLoading ~> (~isLoading /\ ~renderedIsLoading)
  /\ [](( ~renderedIsLoading /\ attempts < MaxSubmits) => ENABLED Submit)

C7_Witness ==
  /\ accepted = 2
  /\ pc # "idle"
  /\ \E i \in 1..Len(messages) : messages[i].type = "error"

\* C8: a submission other than a deployment appends nothing before its end
\* and exactly one AI message, a result or an error, at its end.  Each step
\* of a deployment that emits events leaves exactly one message with the
\* run's identifier, showing the last event, where the message stood before
\* or else appended; the identifier never changes during the run; and the
\* run's last step emits a terminal status.
C8_OneResult ==
  [][ handlerStep =>
        IF ~deployStep
          THEN IF completes
                 THEN /\ Len(messages') = Len(baseMessages) + 1
                      /\ SubSeq(messages', 1, Len(baseMessages)) = baseMessages
                      /\ messages'[Len(messages')].sender = "ai"
                      /\ messages'[Len(messages')].type
                           \in {"text", "grounded_text", "image",
                                "website_analysis", "code_modification", "error"}
                 ELSE messages' = baseMessages
          ELSE LET id == deploymentMessageId'
                   held == {i \in 1..Len(baseMessages) : baseMessages[i].id = id}
                   holds == {i \in 1..Len(messages') : messages'[i].id = id}
                   last == emitted[Len(emitted)]
               IN  /\ accepted' = accepted => deploymentMessageId' = deploymentMessageId
                   /\ completes =>
                        (emitted # <<>> /\ last.name \in {"success", "error"})
                   /\ emitted = <<>> => messages' = baseMessages
                   /\ emitted # <<>> =>
                        /\ Cardinality(holds) = 1
                        /\ \A i \in holds :
                             /\ messages'[i].sender = "ai"
                             /\ messages'[i].type = "deployment"
                             /\ messages'[i].deploymentStatus = last.name
                             /\ messages'[i].text = last.message
                             /\ messages'[i].deploymentUrl = last.url
                        /\ IF held # {}
                             THEN /\ holds = held
                                  /\ Len(messages') = Len(baseMessages)
                             ELSE /\ holds = {Len(baseMessages) + 1}
                                  /\ Len(messages') = Len(baseMessages) + 1
                        /\ \A i \in 1..Len(baseMessages) :
                             i \notin held => messages'[i] = baseMessages[i] ]_vars

C8_Witness ==
  /\ finished
  /\ deployRun
  /\ statusesOf(runLog) = HappyStatuses
  /\ Cardinality({i \in 1..Len(messages) :
                    /\ messages[i].id = deploymentMessageId
                    /\ messages[i].deploymentStatus = "success"}) = 1
  /\ \E i \in 1..Len(messages) :
       messages[i].type = "deployment" /\ messages[i].id # deploymentMessageId

\* the submission has met a failure: a capability call that did not succeed,
\* an API key or a deployment credential that is missing
failedIn(log, p) ==
  IF \E k \in deployKeywords : includes(toLowerCase(p), k)
    THEN \/ env.GITHUB_TOKEN = ""
         \/ env.NETLIFY_TOKEN = ""
         \/ \E i \in 1..Len(log) : log[i].kind = "resp" /\ failureOf(log[i]) # <<>>
    ELSE \/ env.API_KEY = ""
         \/ \E i \in 1..Len(log) : log[i].kind = "resp" /\ log[i].message # <<"ok">>

\* C9: a submission that met a failure still runs to its end with its
\* promise fulfilled, and leaves a message of the AI in the transcript: its
\* result or error message, or the deployment message in status error.
C9_NoFailureEscapes ==
  [][ (completes /\ failedIn(runLog', prompt')) =>
        /\ handlerResult' = "fulfilled"
        /\ IF deployStep
             THEN \E i \in 1..Len(messages') :
                    /\ messages'[i].id = deploymentMessageId'
                    /\ messages'[i].deploymentStatus = "error"
                    /\ nonEmptyText(messages'[i].text)
             ELSE /\ Len(messages') = Len(baseMessages) + 1
                  /\ messages'[Len(messages')].sender = "ai"
                  /\ messages'[Len(messages')].type # "deployment" ]_vars

C9_Witness ==
  /\ finished
  /\ handlerResult = "fulfilled"
  /\ runLog # <<>>
  /\ runLog[Len(runLog)].kind = "resp"
  /\ runLog[Len(runLog)].name = "generateContent (modification)"
  /\ runLog[Len(runLog)].message = <<"json_null">>
  /\ messages[Len(messages)].type = "error"

(***************************************************************************)
(* The branch a command takes, for commands put together from fragments    *)
(* that trigger the conditions of the chain, in any order.                 *)
(***************************************************************************)
Fragments ==
  { <<"U","p","d","a","t","e"," ","T","h","e">>,
    <<"f","t","p",":","/","/","c">>,
    <<"g","e","n","e","r","a","t","e"," ","i","m","a","g","e">>,
    <<"h","t","t","p",":","/","/","a">>,
    <<"H","T","T","P","S",":","/","/","b">>,
    <<"L","a","t","e","s","t">>,
    <<"d","e","p","l","o","y">>,
    <<" ">>,
    <<"x">> }

RECURSIVE concat(_)
concat(parts) ==
  IF parts = <<>> THEN <<>> ELSE Head(parts) \o concat(Tail(parts))

Commands ==
  UNION { {concat(parts) : parts \in [1..n -> Fragments]} : n \in 1..MaxFrags }

SubmitAny == \E p \in Commands : SubmitCommand(p)

SpecClassify == Init /\ [][SubmitAny]_vars

containsUrl(p) == urlMatch(p) # <<>>

containsSearchPhrase(p) == \E k \in searchKeywords : includes(toLowerCase(p), k)

beginsWithModificationPhrase(p) ==
  \E k \in modificationKeywords : startsWith(toLowerCase(p), k)

containsImagePhrase(p) == \E k \in imageKeywords : includes(toLowerCase(p), k)

urlBranchDispatched ==
  /\ pc = "extract"
  /\ url = urlMatch(prompt)
  /\ callsOf(runLog) = <<Call("GET api.allorigins.win/raw", 0)>>

\* C10 as stated: every command that contains a URL and a search phrase
\* takes the URL-analysis branch.
C10_Original ==
  (accepted = 1 /\ containsUrl(prompt) /\ containsSearchPhrase(prompt))
    => urlBranchDispatched

\* C10: a command that contains a URL (http:// or https:// followed by a
\* character other than white space) and a search phrase takes the
\* URL-analysis branch, and no other, when it neither begins with a
\* code-modification phrase nor contains an image-request phrase.
C10_UrlBeforeSearch ==
  ( /\ accepted = 1
    /\ containsUrl(prompt)
    /\ containsSearchPhrase(prompt)
    /\ ~beginsWithModificationPhrase(prompt)
    /\ ~containsImagePhrase(prompt) )
    => urlBranchDispatched

C10_Witness ==
  /\ accepted = 1
  /\ containsUrl(prompt)
  /\ containsSearchPhrase(prompt)
  /\ \E k \in deployKeywords : includes(toLowerCase(prompt), k)
  /\ urlBranchDispatched

\* the branch the submit step entered: read from where the handler is
\* suspended or, when the branch ran to its end within the step, from the
\* message it left
dispatched ==
  CASE pc = "project_files_mod" -> "CodeModification"
    [] pc = "image" -> "ImageGeneration"
    [] pc = "extract" -> "UrlAnalysis"
    [] pc = "search" -> "GroundedSearch"
    [] pc = "github_user" -> "Deployment"
    [] pc = "text" -> "PlainText"
    [] OTHER ->
         LET last == messages[Len(messages)]
         IN  CASE last.type = "error" -> "ImageGeneration"
               [] last.type = "grounded_text" -> "GroundedSearch"
               [] last.type = "deployment" -> "Deployment"
               [] last.type = "text" /\ last.sender = "ai" -> "PlainText"
               [] OTHER -> "None"

containsDeployPhrase(p) == \E k \in deployKeywords : includes(toLowerCase(p), k)

\* C11: a command takes the code-modification branch exactly when it begins
\* with a modification phrase, in any letter case and whatever follows the
\* phrase; a phrase that stands after the first character does not count.
C11_ModificationPrefix ==
  accepted = 1 =>
    /\ beginsWithModificationPhrase(prompt) <=> dispatched = "CodeModification"
    /\ dispatched = "CodeModification" => runLog = SegProjectFiles

C11_Witness ==
  /\ accepted = 1
  /\ prompt # toLowerCase(prompt)
  /\ beginsWithModificationPhrase(prompt)
  /\ containsUrl(prompt)
  /\ containsImagePhrase(prompt)
  /\ dispatched = "CodeModification"

\* C12 as stated: commands that differ only in the letter case of their
\* characters take the same branch; here, a command and its lower-case form.
C12_CaseInsensitive ==
  accepted = 1 => dispatched = classify(toLowerCase(prompt))

(***************************************************************************)
(* The URL branch to its end, for every command.                           *)
(***************************************************************************)
SpecAnalysis == Init /\ [][SubmitAny \/ ExtractResolve \/ AnalysisResolve]_vars

isLetter(c) == \E i \in 1..26 : UpperCase[i] = c \/ LowerCase[i] = c

\* p[i..j] is scheme://, then one or more characters other than white
\* space, as many as there are
urlSpan(p, i, j, scheme) ==
  LET b == i + Len(scheme) + 3
  IN  /\ startsWithAt(p, scheme \o SchemeSep, i)
      /\ b <= j
      /\ j <= Len(p)
      /\ \A k \in b..j : p[k] \notin WhiteSpace
      /\ (j = Len(p) \/ p[j + 1] \in WhiteSpace)

httpUrlAt(p, i, j) == urlSpan(p, i, j, SchemeHttp) \/ urlSpan(p, i, j, SchemeHttps)

\* the same for any scheme: a run of letters
schemeUrlAt(p, i, j) ==
  \E m \in i..j :
    /\ \A k \in i..m : isLetter(p[k])
    /\ urlSpan(p, i, j, SubSeq(p, i, m))

\* the submission is a URL analysis of u: u went to the content extractor
\* and is the analyzed URL of the message, and no other branch was entered
analysisOf(u) ==
  /\ runLog # <<>>
  /\ runLog[1] = Call("GET api.allorigins.win/raw", 0)
  /\ pc \in {"extract", "analysis", "idle"}
  /\ pc # "idle" => url = u
  /\ pc = "idle" =>
       /\ Len(messages) = 3
       /\ messages[3].type \in {"website_analysis", "error"}
       /\ messages[3].type = "website_analysis" => messages[3].analyzedUrl = u

\* C13 as stated: a command that matches neither the modification rule nor
\* the image rule and contains scheme://<non-whitespace>+, for any scheme,
\* is a URL analysis of the first such match.
C13_Original ==
  ( /\ accepted = 1
    /\ ~beginsWithModificationPhrase(prompt)
    /\ ~containsImagePhrase(prompt)
    /\ \E i, j \in 1..Len(prompt) : schemeUrlAt(prompt, i, j) )
    => \E i, j \in 1..Len(prompt) :
         /\ schemeUrlAt(prompt, i, j)
         /\ \A i2 \in 1..(i - 1), j2 \in 1..Len(prompt) : ~schemeUrlAt(prompt, i2, j2)
         /\ analysisOf(SubSeq(prompt, i, j))

\* C13: a command that matches neither the modification rule nor the image
\* rule and contains http:// or https://, in lower case, followed by one or
\* more characters other than white space is a URL analysis, and the URL
\* given to the content extractor and recorded as the analyzed URL is the
\* first such match, taken up to the next white space.
C13_FirstHttpUrl ==
  ( /\ accepted = 1
    /\ ~beginsWithModificationPhrase(prompt)
    /\ ~containsImagePhrase(prompt)
    /\ \E i, j \in 1..Len(prompt) : httpUrlAt(prompt, i, j) )
    => \E i, j \in 1..Len(prompt) :
         /\ httpUrlAt(prompt, i, j)
         /\ \A i2 \in 1..(i - 1), j2 \in 1..Len(prompt) : ~httpUrlAt(prompt, i2, j2)
         /\ analysisOf(SubSeq(prompt, i, j))

C13_Witness ==
  /\ accepted = 1
  /\ pc = "idle"
  /\ Len(messages) = 3
  /\ messages[3].type = "website_analysis"
  /\ \E i, j \in 1..Len(prompt) :
       /\ i > 1
       /\ j < Len(prompt)
       /\ httpUrlAt(prompt, i, j)
       /\ messages[3].analyzedUrl = SubSeq(prompt, i, j)

\* C14: a command starts a deployment exactly when it contains a deploy
\* phrase and none of the four conditions tested before holds; with a search
\* phrase beside the deploy phrase it is a grounded search and no run is
\* started; a command for which no condition holds is answered as plain
\* text.
C14_DeploymentLast ==
  accepted = 1 =>
    LET earlier == \/ beginsWithModificationPhrase(prompt)
                   \/ containsImagePhrase(prompt)
                   \/ containsUrl(prompt)
        search == containsSearchPhrase(prompt)
        deploy == containsDeployPhrase(prompt)
        run == \/ \E i \in 1..Len(runLog) : runLog[i].kind = "event"
               \/ \E i \in 1..Len(messages) : messages[i].type = "deployment"
               \/ deploymentMessageId # NoId
    IN  /\ dispatched = "Deployment" <=> (deploy /\ ~earlier /\ ~search)
        /\ run <=> dispatched = "Deployment"
        /\ (search /\ ~earlier) => dispatched = "GroundedSearch"
        /\ (~earlier /\ ~search /\ ~deploy) => dispatched = "PlainText"

C14_Witness ==
  /\ accepted = 1
  /\ containsSearchPhrase(prompt)
  /\ containsDeployPhrase(prompt)
  /\ dispatched = "GroundedSearch"
  /\ deploymentMessageId = NoId

\* where deployApp is suspended between its first event and its last
DeployPositions ==
  {"github_user", "github_repo", "project_files", "upload", "netlify_site",
   "timer"}

runActive == pc \in DeployPositions

\* the step calls deployApp: it emits the first event of a run
startsRun == accepted' # accepted /\ eventsOf(runLog') # <<>>

\* C15: deployApp is called only when no run (and no other submission) is
\* in flight, and while a run is active each step is a step of that run:
\* no submit is accepted, the run's identifier stays and its events and
\* calls extend the log of the run.
C15_OneRunAtATime ==
  [][ /\ startsRun => (pc = "idle" /\ ~isLoading /\ ~runActive)
      /\ runActive =>
           /\ accepted' = accepted
           /\ deploymentMessageId' = deploymentMessageId
           /\ Len(runLog') >= Len(runLog)
           /\ SubSeq(runLog', 1, Len(runLog)) = runLog ]_vars

C15_Witness ==
  /\ runActive
  /\ pc = "upload"
  /\ accepted = 1
  /\ attempts = 2
  /\ statusesOf(runLog) = <<"initializing", "creating_repo", "pushing_files">>

(***************************************************************************)
(* The content extractor on markup whose text is about maxLength long, and *)
(* twice as long.                                                          *)
(***************************************************************************)
Digits == <<"0", "1", "2", "3", "4", "5", "6", "7", "8", "9">>

\* a text of n characters, no two neighbours alike
body(n) == [i \in 1..n |-> Digits[(i % 10) + 1]]

LongLengths == ((maxLength - MaxOver)..(maxLength + MaxOver)) \cup {2 * maxLength}

LongMarkups ==
  Markups
    \cup { body(n) : n \in LongLengths }
    \cup { <<" ", "<p>">> \o body(n) \o <<"</p>", "<script>a()</script>", "\n", " ">> :
             n \in LongLengths }

SubmitUrl == accepted = 0 /\ SubmitCommand(PromptUrl)

ExtractResolveLong == ExtractResolveOf(LongMarkups)

NextExtract ==
  \/ SubmitUrl
  \/ SubmitRejected
  \/ ExtractResolveLong
  \/ AnalysisResolve
  \/ Render
  \/ ClearHistory
  \/ Tick

SpecExtract == Init /\ [][NextExtract]_vars

\* fetchWebsiteContent has returned
extracted ==
  \E i \in 1..Len(runLog) : runLog[i] = Resp("GET api.allorigins.win/raw", 0, "ok")

\* C16: what fetchWebsiteContent returns is never longer than 15,000
\* characters; it is the cleaned text whole when that has at most 15,000
\* characters, and otherwise exactly its first 15,000 characters.
C16_AtMostMaxLength ==
  extracted =>
    LET cleaned == cleanedText(html)
    IN  /\ Len(content) <= 15000
        /\ Len(cleaned) <= 15000 => content = cleaned
        /\ Len(cleaned) > 15000 =>
             /\ Len(content) = 15000
             /\ \A i \in 1..15000 : content[i] = cleaned[i]

C16_Witness ==
  /\ extracted
  /\ pc = "analysis"
  /\ Len(html) > 2 * 15000
  /\ Len(cleanedText(html)) = 2 * 15000
  /\ Len(content) = 15000

(***************************************************************************)
(* One submission, of any kind, to its end.                                *)
(***************************************************************************)
SubmitFirst == accepted = 0 /\ Submit

NextOne ==
  \/ SubmitFirst
  \/ SubmitRejected
  \/ Resolve
  \/ Render
  \/ ClearHistory
  \/ Tick

SpecOne == Init /\ [][NextOne]_vars

\* the step in which the fetch of the proxy comes back without success: a
\* response that is not 2xx, or a rejection
fetchComesBackFailed ==
  /\ pc = "extract"
  /\ Len(runLog') > Len(runLog)
  /\ LET r == runLog'[Len(runLog) + 1]
     IN  /\ r.kind = "resp"
         /\ r.name = "GET api.allorigins.win/raw"
         /\ r.message \in {<<"not_ok">>, <<"rejected">>}

\* C17: when the fetch does not succeed fetchWebsiteContent returns no
\* text; the analysis provider is not called, no website_analysis message
\* is added, and the submission ends with exactly one error message.
C17_FetchFailure ==
  [][ fetchComesBackFailed =>
        /\ content' = <<>>
        /\ \A i \in 1..Len(runLog') : runLog'[i].name # "generateContent (analysis)"
        /\ pc' = "idle"
        /\ ~isLoading'
        /\ messages' = Append(messages, messages'[Len(messages')])
        /\ messages'[Len(messages')].type = "error"
        /\ messages'[Len(messages')].sender = "ai"
        /\ messages'[Len(messages')].text = ExtractFailure ]_vars

C17_Witness ==
  /\ finished
  /\ runLog = <<Call("GET api.allorigins.win/raw", 0),
                Resp("GET api.allorigins.win/raw", 0, "not_ok")>>
  /\ messages[Len(messages)].type = "error"
  /\ \A i \in 1..Len(messages) : messages[i].type # "website_analysis"

(***************************************************************************)
(* Grounded search on every list of up to MaxChunks grounding chunks.      *)
(***************************************************************************)
ChunkLists == UNION { [1..n -> Chunks] : n \in 0..MaxChunks }

SubmitSearch == accepted = 0 /\ SubmitCommand(PromptSearch)

SearchResolveAll == SearchResolveOf(ChunkLists)

NextSearch ==
  \/ SubmitSearch
  \/ SubmitRejected
  \/ SearchResolveAll
  \/ Render
  \/ Tick

SpecSearch == Init /\ [][NextSearch]_vars

\* generateGroundedResponse has returned the sources of a response, and the
\* message that carries them is the last of the transcript
searched ==
  /\ finished
  /\ runLog # <<>>
  /\ runLog[Len(runLog)] = Resp("generateContent (search)", 0, "ok")
  /\ messages[Len(messages)].type = "grounded_text"

\* the result holds one source for each uri of the input sources, with the
\* title of the last of them that has the uri, and no other source
dedupedFrom(result, input) ==
  /\ \A i \in 1..Len(input) :
       /\ Cardinality({k \in 1..Len(result) : result[k].uri = input[i].uri}) = 1
       /\ (\A j \in (i + 1)..Len(input) : input[j].uri # input[i].uri) =>
            \E k \in 1..Len(result) :
              result[k].uri = input[i].uri /\ result[k].title = input[i].title
  /\ \A k \in 1..Len(result) : \E i \in 1..Len(input) : result[k].uri = input[i].uri

\* C18 as stated: one source per distinct uri of the list the provider
\* returned, with the title of the uri's last occurrence in that list.
C18_Original ==
  searched =>
    dedupedFrom(messages[Len(messages)].sources,
                SelectSeq(groundingChunks, LAMBDA chunk : chunk.web))

\* C18: the result holds exactly one source per distinct uri of the
\* well-formed sources of the response (uri and title present and not
\* empty), with the title of the last well-formed source of that uri; a
\* source that is not well-formed neither appears nor counts.
C18_LastWellFormedWins ==
  searched =>
    dedupedFrom(messages[Len(messages)].sources,
                SelectSeq(groundingChunks,
                          LAMBDA chunk : chunk.web /\ chunk.uri # "" /\ chunk.title # ""))

C18_Witness ==
  /\ searched
  /\ groundingChunks = <<Web("a", "X"), Web("a", "Y"), Web("b", "Z")>>
  /\ messages[Len(messages)].sources =
       <<[uri |-> "a", title |-> "Y"], [uri |-> "b", title |-> "Z"]>>

\* the step in which the response to the code-modification request arrives
\* and is not the structure asked for: no JSON, the JSON null, or JSON of
\* another shape
malformedModificationArrives ==
  /\ pc = "modification"
  /\ Len(runLog') > Len(runLog)
  /\ LET r == runLog'[Len(runLog) + 1]
     IN  /\ r.kind = "resp"
         /\ r.name = "generateContent (modification)"
         /\ r.message \in {<<"not_json">>, <<"json_null">>, <<"json_other">>}

\* C19 as stated: a response that is not parseable as the structure asked
\* for ends in a code-modification message with an explanatory text and an
\* empty change list.
C19_MalformedDefaults ==
  [][ malformedModificationArrives =>
        /\ messages' = Append(messages, messages'[Len(messages')])
        /\ messages'[Len(messages')].type = "code_modification"
        /\ nonEmptyText(messages'[Len(messages')].text)
        /\ messages'[Len(messages')].payload = "empty" ]_vars

\* the step in which generateImages resolves with no image
noImageArrives ==
  /\ pc = "image"
  /\ Len(runLog') > Len(runLog)
  /\ runLog'[Len(runLog) + 1] = Resp("generateImages", 0, "zero_images")

\* C20: when the provider returns zero images the image adapter throws, and
\* the submission ends with one error message and no image message.
C20_NoImageIsAnError ==
  [][ noImageArrives =>
        /\ pc' = "idle"
        /\ ~isLoading'
        /\ handlerResult' = "fulfilled"
        /\ messages' = Append(messages, messages'[Len(messages')])
        /\ messages'[Len(messages')].type = "error"
        /\ messages'[Len(messages')].sender = "ai"
        /\ nonEmptyText(messages'[Len(messages')].text)
        /\ messages'[Len(messages')].payload # "imageUrl" ]_vars

C20_Witness ==
  /\ finished
  /\ runLog = <<Call("generateImages", 0), Resp("generateImages", 0, "zero_images")>>
  /\ messages[Len(messages)].type = "error"
  /\ \A i \in 1..Len(messages) : messages[i].type # "image"

(***************************************************************************)
(* deployApp: what a failed run leaves behind.                             *)
(***************************************************************************)
\* the requests deployApp makes: each reads, creates or writes
PipelineCalls ==
  {"GET api.github.com/user", "POST api.github.com/user/repos",
   "GET project file", "PUT api.github.com/repos/contents",
   "POST api.netlify.com/sites"}

\* the response to the site request by which site creation fails
siteCreationFailed(entry) ==
  /\ entry.kind = "resp"
  /\ entry.name = "POST api.netlify.com/sites"
  /\ entry.message \in {<<"not_ok">>, <<"rejected">>}

\* the repository was created before position i of the log
repositoryCreatedBefore(log, i) ==
  \E j \in 1..(i - 1) : log[j] = Resp("POST api.github.com/user/repos", 0, "ok")

\* C21: when site creation fails, the repository having been created, the
\* run is over with one more entry, the error event: it has issued no call
\* after the failure, and no call of the run is anything but a request of
\* the pipeline (none deletes or undoes what was created or uploaded).
C21_NoRollback ==
  deployRun =>
    \A i \in 1..Len(runLog) :
      siteCreationFailed(runLog[i]) =>
        /\ repositoryCreatedBefore(runLog, i)
        /\ pc = "idle"
        /\ Len(runLog) = i + 1
        /\ runLog[i + 1].kind = "event"
        /\ runLog[i + 1].name = "error"
        /\ \A j \in 1..Len(runLog) :
             runLog[j].kind = "call" => runLog[j].name \in PipelineCalls

C21_Witness ==
  /\ deployRun
  /\ finished
  /\ \E i \in 1..Len(runLog) : siteCreationFailed(runLog[i])
  /\ \E i \in 1..Len(runLog) :
       runLog[i] = Resp("PUT api.github.com/repos/contents", 1, "ok")
  /\ \E i \in 1..Len(messages) :
       /\ messages[i].id = deploymentMessageId
       /\ messages[i].deploymentStatus = "error"

(***************************************************************************)
(* handleSendMessage: an external call that never returns.                 *)
(***************************************************************************)
\* where the handler awaits an external call
CallPositions ==
  {"project_files_mod", "modification", "image", "extract", "analysis",
   "search", "text", "github_user", "github_repo", "project_files", "upload",
   "netlify_site"}

\* C22: while the handler awaits an external call, a step other than the
\* return of that call leaves it suspended there with the flag set and
\* rendered set, and accepts no submission; so when the call never returns
\* the flag stays set for ever and no submit is enabled any more.
C22_HungCallStalls ==
  /\ [][ (pc \in CallPositions /\ ~Resolve) =>
           /\ pc' = pc
           /\ isLoading /\ isLoading'
           /\ renderedIsLoading /\ renderedIsLoading'
           /\ accepted' = accepted ]_vars
  /\ \A c \in CallPositions :
       <>[](pc = c) => <>[](isLoading /\ renderedIsLoading /\ ~ENABLED Submit)

C22_Witness ==
  /\ pc = "analysis"
  /\ isLoading
  /\ accepted = 1
  /\ attempts = MaxSubmits
  /\ now = MaxNow
  /\ Len(messages) = 1

(***************************************************************************)
(* deployApp: the pushing_files step.                                      *)
(***************************************************************************)
\* the files getProjectFiles resolved, in list order
fileEntries(log) == SelectSeq(log, LAMBDA e : e.kind \in {"file", "file_failed"})

\* the write requests of the run, in the order they were made
uploadCalls(log) ==
  SelectSeq(log, LAMBDA e : e.kind = "call"
                             /\ e.name = "PUT api.github.com/repos/contents")

uploaded(log) == [i \in 1..Len(uploadCalls(log)) |-> uploadCalls(log)[i].arg]

\* the files with content other than white space, in list order
toUpload(log) ==
  LET kept == SelectSeq(fileEntries(log), LAMBDA e : ~isBlank(e.message))
  IN  [i \in 1..Len(kept) |-> kept[i].arg]

isPrefix(s, t) == Len(s) <= Len(t) /\ SubSeq(t, 1, Len(s)) = s

\* the run has left the pushing_files step: it went on to the site, or ended
stepOver(log) ==
  /\ fileEntries(log) # <<>>
  /\ \/ pc = "idle"
     \/ \E i \in 1..Len(log) : log[i].kind = "event" /\ log[i].name = "creating_site"

\* a write request that came back with a non-success response is followed by
\* the next write request or by the creating_site event
writeResponseIgnored(log) ==
  \A i \in 1..Len(log) :
    (\E k \in 1..MaxFiles :
       log[i] = Resp("PUT api.github.com/repos/contents", k, "not_ok")) =>
      /\ i < Len(log)
      /\ \/ log[i + 1].kind = "call"
         \/ log[i + 1].kind = "event" /\ log[i + 1].name = "creating_site"

\* a write request was rejected: the fetch itself failed
writeRejected(log) ==
  \E i \in 1..Len(log) : \E k \in 1..MaxFiles :
    log[i] = Resp("PUT api.github.com/repos/contents", k, "rejected")

\* C23 as claimed: once the step is over, the write requests made are one
\* for each file with content, in list order, and none for a blank file; a
\* non-success write response does not end the run.
C23_Original ==
  deployRun =>
    /\ stepOver(runLog) => uploaded(runLog) = toUpload(runLog)
    /\ writeResponseIgnored(runLog)

\* C23 amended: the write requests made are at every moment the first ones
\* of the list of files with content, in list order, none for a blank file
\* or one whose fetch failed; once the step is over they are all of that
\* list, unless a write request was rejected, which ends the run; a
\* non-success write response does not end the run.
C23_UploadsInOrder ==
  deployRun =>
    /\ isPrefix(uploaded(runLog), toUpload(runLog))
    /\ (stepOver(runLog) /\ ~writeRejected(runLog)) =>
         uploaded(runLog) = toUpload(runLog)
    /\ writeResponseIgnored(runLog)

C23_Witness ==
  /\ deployRun
  /\ finished
  /\ statusesOf(runLog) = HappyStatuses
  /\ \E i \in 1..Len(runLog) : runLog[i].kind = "file_failed"
  /\ \E i \in 1..Len(runLog) : \E k \in 1..MaxFiles :
       runLog[i] = Resp("PUT api.github.com/repos/contents", k, "not_ok")
  /\ Len(uploaded(runLog)) = MaxFiles - 1

(***************************************************************************)
(* deployApp: what each request of the pipeline waits for.                 *)
(***************************************************************************)
isCall(entry, name) == entry.kind = "call" /\ entry.name = name

\* the request of this name was answered, with a 2xx response, before
\* position i of the log
succeededBefore(log, i, name) ==
  \E j \in 1..(i - 1) :
    /\ log[j].kind = "resp"
    /\ log[j].name = name
    /\ log[j].message \in {<<"ok">>, <<"ok_no_url">>}

\* at position i of the log the upload loop is over: the files are
\* resolved, every write request made has been answered, none follows
uploadLoopFinishedAt(log, i) ==
  /\ \E j \in 1..(i - 1) : log[j].kind \in {"file", "file_failed"}
  /\ \A j \in 1..Len(log) :
       isCall(log[j], "PUT api.github.com/repos/contents") =>
         /\ j + 1 < i
         /\ log[j + 1].kind = "resp"
         /\ log[j + 1].name = log[j].name
         /\ log[j + 1].arg = log[j].arg

\* C24: in a run the repository is requested only after authentication
\* succeeded; a file is written and the site requested only after the
\* repository request succeeded; the site is requested at most once and
\* only when the upload loop is over; success is emitted only after the
\* site request succeeded.
C24_PipelineOrder ==
  deployRun =>
    \A i \in 1..Len(runLog) :
      /\ isCall(runLog[i], "POST api.github.com/user/repos") =>
           succeededBefore(runLog, i, "GET api.github.com/user")
      /\ isCall(runLog[i], "PUT api.github.com/repos/contents") =>
           succeededBefore(runLog, i, "POST api.github.com/user/repos")
      /\ isCall(runLog[i], "POST api.netlify.com/sites") =>
           /\ succeededBefore(runLog, i, "POST api.github.com/user/repos")
           /\ uploadLoopFinishedAt(runLog, i)
           /\ \A j \in 1..Len(runLog) :
                isCall(runLog[j], "POST api.netlify.com/sites") => j = i
      /\ (runLog[i].kind = "event" /\ runLog[i].name = "success") =>
           succeededBefore(runLog, i, "POST api.netlify.com/sites")

C24_Witness ==
  /\ deployRun
  /\ finished
  /\ runLog # <<>>
  /\ runLog[Len(runLog)].name = "success"
  /\ Len(uploadCalls(runLog)) = MaxFiles
  /\ \E i \in 1..Len(runLog) :
       runLog[i] = Resp("POST api.netlify.com/sites", 0, "ok_no_url")

(***************************************************************************)
(* onProgress and handleClearHistory: one message per deployment run.      *)
(***************************************************************************)
\* where the transcript holds a message with this id
positionsOf(msgs, id) == {i \in 1..Len(msgs) : msgs[i].id = id}

\* no two messages share the id of a deployment message
oneMessagePerDeployment(msgs) ==
  \A i \in 1..Len(msgs) :
    msgs[i].type = "deployment" => positionsOf(msgs, msgs[i].id) = {i}

\* C25: the transcript never holds two messages with the id of a
\* deployment message.  A step of a run that emits events leaves exactly one
\* message with the run's id: where one stood before the step, the others
\* untouched and the length kept; at the end, behind the transcript as it
\* was, when none stood, as after a clear of the history during the run.
C25_OneMessagePerRun ==
  /\ [](oneMessagePerDeployment(messages))
  /\ [][ (handlerStep /\ deployStep /\ emitted # <<>>) =>
           LET id == deploymentMessageId'
               before == positionsOf(baseMessages, id)
               after == positionsOf(messages', id)
           IN  /\ Cardinality(after) = 1
               /\ \A i \in after : messages'[i].type = "deployment"
               /\ IF before # {}
                    THEN /\ after = before
                         /\ Len(messages') = Len(baseMessages)
                         /\ \A i \in 1..Len(baseMessages) :
                              i \notin before => messages'[i] = baseMessages[i]
                    ELSE messages' =
                           Append(baseMessages, messages'[Len(messages')]) ]_vars

\* the history was cleared during the run and a later event has put the
\* run's message back, behind the initial message
C25_Witness ==
  /\ pc = "netlify_site"
  /\ Len(messages) = 2
  /\ messages[1] = INITIAL_MESSAGE
  /\ messages[2].id = deploymentMessageId
  /\ messages[2].deploymentStatus = "creating_site"

====
